---------------------------- MODULE Spec2Model ----------------------------
(***************************************************************************)
(* A model of app.py, the marathon LINE bot: the scrape -> clean -> query  *)
(* pipeline, the shared snapshot cleaned_df, the periodic refresh and the  *)
(* webhook message handler.                                                *)
(*                                                                         *)
(* Strings are sequences of one-character tokens.  ASCII characters are    *)
(* themselves; a CJK character is written as a romanised token ("tai" is   *)
(* U+53F0, "tai_t" is U+81FA, ...), one token per character, so substring  *)
(* containment, slicing and regular-expression scans work per character.   *)
(***************************************************************************)
EXTENDS Integers, Sequences, FiniteSets, TLC

VARIABLES
    cleaned_df,   \* the global snapshot reference (0 is None)
    heap,         \* DataFrame objects by reference
    published,    \* history: the content of each frame when it was published
    initialized,  \* init_data has returned
    upd,          \* the refresh job (update_data): its position and locals
    updates,      \* number of refresh runs started
    hnd,          \* the handler threads (handle_message): position and locals
    input,        \* the input of the function under study (pure specifications)
    output,       \* its output
    step          \* its position

vars == <<cleaned_df, heap, published, initialized, upd, updates, hnd,
          input, output, step>>

(***************************************************************************)
(* Bounds                                                                  *)
(***************************************************************************)
MaxLocLen == 4      \* longest location string drawn
MaxDateLen == 6     \* longest date string drawn
MaxValueLen == 2    \* longest search value drawn
MaxRows == 2        \* most records in a drawn snapshot
MaxPageRows == 3    \* most table rows in a drawn page
MaxUpdates == 1     \* refresh runs

(***************************************************************************)
(* Strings                                                                 *)
(***************************************************************************)
Strings(A, n) == UNION {[1..k -> A] : k \in 0..n}

Digit == {"0", "1", "2", "3", "4", "5", "6", "7", "8", "9"}

\* sub in s  (Python's substring test)
Contains(s, sub) ==
    \E i \in 0..(Len(s) - Len(sub)) : SubSeq(s, i + 1, i + Len(sub)) = sub

\* the sentinel "no data" string of lines 71, 74
NoDataSentinel == <<"wu", "zi", "liao">>

\* pandas' missing value in the month column
NaN == <<"NaN">>

(***************************************************************************)
(* clean_data                                                              *)
(***************************************************************************)
\* the dict of lines 99-105, in insertion order
location_mapping ==
    << [loc |-> <<"tai", "bei">>, code |-> 1],
       [loc |-> <<"tai_t", "bei">>, code |-> 1],
       [loc |-> <<"xin", "bei">>, code |-> 1],
       [loc |-> <<"ji", "long">>, code |-> 1],
       [loc |-> <<"tao", "yuan">>, code |-> 1],
       [loc |-> <<"xin", "zhu">>, code |-> 1],
       [loc |-> <<"yi", "lan">>, code |-> 1],
       [loc |-> <<"tai", "zhong">>, code |-> 2],
       [loc |-> <<"tai_t", "zhong">>, code |-> 2],
       [loc |-> <<"miao", "li">>, code |-> 2],
       [loc |-> <<"zhang", "hua">>, code |-> 2],
       [loc |-> <<"nan", "tou">>, code |-> 2],
       [loc |-> <<"yun", "lin">>, code |-> 2],
       [loc |-> <<"gao", "xiong">>, code |-> 3],
       [loc |-> <<"tai", "nan">>, code |-> 3],
       [loc |-> <<"tai_t", "nan">>, code |-> 3],
       [loc |-> <<"jia", "yi4">>, code |-> 3],
       [loc |-> <<"ping", "dong">>, code |-> 3],
       [loc |-> <<"hua1", "lian">>, code |-> 4],
       [loc |-> <<"tai", "dong">>, code |-> 4],
       [loc |-> <<"tai_t", "dong">>, code |-> 4],
       [loc |-> <<"jin", "men">>, code |-> 5],
       [loc |-> <<"peng", "hu">>, code |-> 5],
       [loc |-> <<"ma", "zu">>, code |-> 5] >>

\* next((code for loc, code in location_mapping.items() if loc in x), 0)
RECURSIVE FirstMatch(_, _)
FirstMatch(x, i) ==
    IF i > Len(location_mapping) THEN 0
    ELSE IF Contains(x, location_mapping[i].loc) THEN location_mapping[i].code
    ELSE FirstMatch(x, i + 1)

\* a plausible slip: the entry that occurs earliest in the location string wins
RECURSIVE EarliestInText(_, _)
EarliestInText(x, p) ==
    IF p > Len(x) THEN 0
    ELSE LET hits == {i \in 1..Len(location_mapping) :
                        /\ p + Len(location_mapping[i].loc) - 1 <= Len(x)
                        /\ SubSeq(x, p, p + Len(location_mapping[i].loc) - 1)
                             = location_mapping[i].loc}
         IN IF hits # {}
            THEN location_mapping[CHOOSE i \in hits : \A j \in hits : i <= j].code
            ELSE EarliestInText(x, p + 1)

region_code_mutant(x) == EarliestInText(x, 1)

region_code_of(x) == FirstMatch(x, 1)

\* re.search(r'(\d{2})/\d{2}', s) from position p on: group 1 of the leftmost match
RECURSIVE SearchMonth(_, _)
SearchMonth(s, p) ==
    IF p + 4 > Len(s) THEN NaN
    ELSE IF /\ s[p] \in Digit /\ s[p + 1] \in Digit /\ s[p + 2] = "/"
            /\ s[p + 3] \in Digit /\ s[p + 4] \in Digit
         THEN <<s[p], s[p + 1]>>
         ELSE SearchMonth(s, p + 1)

\* a plausible slip: the pattern anchored at the start (Series.str.match semantics)
month_mutant(s) ==
    IF /\ Len(s) >= 5 /\ s[1] \in Digit /\ s[2] \in Digit /\ s[3] = "/"
       /\ s[4] \in Digit /\ s[5] \in Digit
    THEN <<s[1], s[2]>> ELSE NaN

\* df['date'].str.extract(r'(\d{2})/\d{2}')[0], for one value
month_of(s) == SearchMonth(s, 1)

NoCol == [present |-> FALSE, vals |-> <<>>]

\* the value None of line 26 (isframe distinguishes it from a DataFrame)
NoneDF == [isframe |-> FALSE, rows |-> <<>>, region_code |-> NoCol, month |-> NoCol]

\* pd.DataFrame(races): the six scraped columns only
RawFrame(rows) ==
    [isframe |-> TRUE, rows |-> rows, region_code |-> NoCol, month |-> NoCol]

\* pd.DataFrame(columns=[... all eight ...])
EmptyTyped ==
    [isframe |-> TRUE, rows |-> <<>>,
     region_code |-> [present |-> TRUE, vals |-> <<>>],
     month |-> [present |-> TRUE, vals |-> <<>>]]

\* df.empty
IsEmpty(df) == df.rows = <<>>

\* line 108: df['region_code'] = df['location'].apply(...)
AssignRegion(df) ==
    [df EXCEPT !.region_code =
        [present |-> TRUE,
         vals |-> [k \in 1..Len(df.rows) |-> region_code_of(df.rows[k].location)]]]

\* line 113: df['month'] = df['date'].str.extract(...)[0]
AssignMonth(df) ==
    [df EXCEPT !.month =
        [present |-> TRUE,
         vals |-> [k \in 1..Len(df.rows) |-> month_of(df.rows[k].date)]]]

\* clean_data(df).  Every scraped field is a str, so neither column assignment
\* can raise on a frame built by scrape_marathon_data: the except branch of
\* lines 117-119 is not reachable from the callers and has no transition here.
clean_data(df) == IF IsEmpty(df) THEN df ELSE AssignMonth(AssignRegion(df))

(***************************************************************************)
(* scrape_marathon_data                                                    *)
(***************************************************************************)
WhiteSpace == {" ", "\n"}

\* str.strip()
RECURSIVE LStrip(_)
LStrip(s) == IF s # <<>> /\ Head(s) \in WhiteSpace THEN LStrip(Tail(s)) ELSE s

RECURSIVE RStrip(_)
RStrip(s) ==
    IF s # <<>> /\ s[Len(s)] \in WhiteSpace THEN RStrip(SubSeq(s, 1, Len(s) - 1)) ELSE s

Strip(s) == RStrip(LStrip(s))

\* the least number of cells of a row that is extracted (line 67)
MinCells == 7

\* len(cells) >= 7
row_qualifies(cells) == Len(cells) >= MinCells

\* lines 68-83: the record of one row.  A cell is [text, a]: its text and its
\* anchors (none or one, each [text, href] with href none or one string);
\* cells[k] of the code is cells[k + 1] here.
race_info(cells) ==
    LET name_cell == cells[2]
        has_link == name_cell.a # <<>>
        link_tag == name_cell.a[1]
    IN [date |-> Strip(cells[4].text),
        name |-> IF has_link THEN Strip(link_tag.text) ELSE Strip(name_cell.text),
        location |-> Strip(cells[5].text),
        distance |-> Strip(cells[6].text),
        link |-> IF has_link /\ link_tag.href # <<>> THEN link_tag.href[1]
                 ELSE NoDataSentinel,
        registration_date |-> IF Len(cells) > 7 THEN Strip(cells[8].text)
                              ELSE NoDataSentinel]

\* the loop of lines 65-84 from row i on
RECURSIVE ExtractFrom(_, _)
ExtractFrom(page, i) ==
    IF i > Len(page) THEN <<>>
    ELSE (IF row_qualifies(page[i]) THEN <<race_info(page[i])>> ELSE <<>>)
         \o ExtractFrom(page, i + 1)

\* the value returned at line 86 when nothing raises
scrape_ok(page) == RawFrame(ExtractFrom(page, 1))

\* a plausible slip: the except branch returns the records extracted so far
scrape_failed_partial == RawFrame(output.races)

\* the value returned at line 90
scrape_failed == RawFrame(<<>>)

(***************************************************************************)
(* format_response and search_races                                        *)
(***************************************************************************)
Msg(m) == [msg |-> m, rows |-> <<>>]

\* lines 141-149: the lines written for one record; link and registration
\* date only when they are not the sentinel
format_row(row) ==
    [date |-> row.date, name |-> row.name, location |-> row.location,
     distance |-> row.distance,
     link |-> IF row.link # NoDataSentinel THEN <<row.link>> ELSE <<>>,
     registration_date |-> IF row.registration_date # NoDataSentinel
                           THEN <<row.registration_date>> ELSE <<>>]

format_response(results) ==
    IF results = <<>> THEN Msg("not_found")
    ELSE [msg |-> "found", rows |-> [k \in 1..Len(results) |-> format_row(results[k])]]

\* df[mask]: the rows whose mask entry is true, in order
RECURSIVE Pick(_, _, _)
Pick(rows, mask, k) ==
    IF k > Len(rows) THEN <<>>
    ELSE (IF mask[k] THEN <<rows[k]>> ELSE <<>>) \o Pick(rows, mask, k + 1)

\* value[-2:]
LastTwo(value) == IF Len(value) <= 2 THEN value ELSE SubSeq(value, Len(value) - 1, Len(value))

\* int(value): surrounding whitespace, an optional sign, decimal digits
DigitVal(c) ==
    CASE c = "0" -> 0 [] c = "1" -> 1 [] c = "2" -> 2 [] c = "3" -> 3 [] c = "4" -> 4
      [] c = "5" -> 5 [] c = "6" -> 6 [] c = "7" -> 7 [] c = "8" -> 8 [] c = "9" -> 9

Unsigned(s) == IF s # <<>> /\ Head(s) \in {"+", "-"} THEN Tail(s) ELSE s

IsPyInt(value) ==
    LET d == Unsigned(Strip(value))
    IN d # <<>> /\ \A k \in 1..Len(d) : d[k] \in Digit

RECURSIVE DigitsVal(_)
DigitsVal(d) ==
    IF d = <<>> THEN 0 ELSE 10 * DigitsVal(SubSeq(d, 1, Len(d) - 1)) + DigitVal(d[Len(d)])

PyInt(value) ==
    LET t == Strip(value)
    IN IF t # <<>> /\ Head(t) = "-" THEN 0 - DigitsVal(Unsigned(t)) ELSE DigitsVal(Unsigned(t))

\* re.IGNORECASE on the letters of the model's alphabets
Lower(c) == CASE c = "A" -> "a" [] c = "B" -> "b" [] OTHER -> c

\* Series.str.contains(value, case=False) is called without regex=False, so
\* value is compiled as a regular expression (pandas' default regex=True).
\* The pattern language modelled: literal characters, "." (any character but
\* a newline) and "(", which without a closing ")" makes re.compile raise.
regex_invalid(value) == \E k \in 1..Len(value) : value[k] = "("

regex_search(value, s) ==
    \E i \in 0..(Len(s) - Len(value)) :
        \A k \in 1..Len(value) :
            \/ value[k] = "." /\ s[i + k] # "\n"
            \/ value[k] # "." /\ Lower(value[k]) = Lower(s[i + k])

\* the mask of lines 166-169
keyword_mask(df, value) ==
    [k \in 1..Len(df.rows) |->
        regex_search(value, df.rows[k].name) \/ regex_search(value, df.rows[k].location)]

\* lines 161-162: df['month'] == value[-2:]  (NaN equals no string)
date_mask(df, value) ==
    [k \in 1..Len(df.rows) |-> df.month.vals[k] = LastTwo(value)]

\* a plausible slip: the column compared with the string, not with int(value)
region_mask_str(df, value) == [k \in 1..Len(df.rows) |-> FALSE]

\* line 164: df['region_code'] == int(value)
region_mask(df, value) ==
    [k \in 1..Len(df.rows) |-> df.region_code.vals[k] = PyInt(value)]

\* the try block of lines 159-173 on a frame that passed the test of line 155
search_body(df, search_type, value) ==
    IF search_type = "date"
    THEN IF ~df.month.present THEN Msg("search_error")
         ELSE format_response(Pick(df.rows, date_mask(df, value), 1))
    ELSE IF search_type = "region"
    THEN IF ~df.region_code.present \/ ~IsPyInt(value) THEN Msg("search_error")
         ELSE format_response(Pick(df.rows, region_mask(df, value), 1))
    ELSE IF search_type = "keyword"
    THEN IF regex_invalid(value) THEN Msg("search_error")
         ELSE format_response(Pick(df.rows, keyword_mask(df, value), 1))
    ELSE Msg("invalid_type")

\* a plausible slip: the empty-frame test of line 155 left out
search_races_no_empty_test(df, search_type, value) ==
    IF ~df.isframe THEN Msg("no_data") ELSE search_body(df, search_type, value)

\* search_races(df, search_type, value), lines 153-177.  A missing column
\* (KeyError), a value int() rejects (ValueError) and a pattern re rejects
\* (re.error) are all caught at line 175.
search_races(df, search_type, value) ==
    IF ~df.isframe \/ IsEmpty(df) THEN Msg("no_data")
    ELSE search_body(df, search_type, value)

(***************************************************************************)
(* handle_message: the classification of lines 195-236                     *)
(***************************************************************************)
\* no_response_texts, lines 198-202
no_response_texts ==
    { <<"yi1", "shi", "jian", "cha", "xun", "sai", "shi4">>,
      <<"yi1", "di", "qu", "cha", "xun", "sai", "shi4">>,
      <<"yi1", "sai", "shi4", "ming", "cheng", "cha", "xun">> }

\* re.match(r'^\d{6}$', text): "$" also matches before one trailing newline
IsSixDigits(text) ==
    LET body == IF Len(text) = 7 /\ text[7] = "\n" THEN SubSeq(text, 1, 6) ELSE text
    IN Len(body) = 6 /\ \A k \in 1..6 : body[k] \in Digit

\* re.match(r'^[1-5]$', text)
IsRegionDigit(text) ==
    LET body == IF Len(text) = 2 /\ text[2] = "\n" THEN SubSeq(text, 1, 1) ELSE text
    IN Len(body) = 1 /\ body[1] \in {"1", "2", "3", "4", "5"}

\* the branch taken for the raw message text: what is replied without a
\* search ("ignore": nothing), or the search to run
classify(raw) ==
    LET text == Strip(raw)
    IN IF text \in no_response_texts THEN [kind |-> "ignore", value |-> <<>>]
       ELSE IF text # <<>> /\ Head(text) = "/"
       THEN IF Tail(text) = <<>> THEN [kind |-> "prompt", value |-> <<>>]
            ELSE [kind |-> "keyword", value |-> Tail(text)]
       ELSE IF IsSixDigits(text) THEN [kind |-> "date", value |-> text]
       ELSE IF IsRegionDigit(text) THEN [kind |-> "region", value |-> text]
       ELSE [kind |-> "help", value |-> <<>>]

(***************************************************************************)
(* Sample data                                                             *)
(***************************************************************************)
Cell(t) == [text |-> t, a |-> <<>>]
LinkCell(t, href) == [text |-> t, a |-> <<[text |-> t, href |-> href]>>]

\* table rows of the page (tr.rowbackgroundcolor), by their td cells
Row8 == << Cell(<<"1">>), LinkCell(<<" ", "A", "b">>, << <<"u">> >>), Cell(<<>>),
           Cell(<<"0", "6", "/", "1", "5", " ">>), Cell(<<"gao", "xiong">>),
           Cell(<<"4", "2">>), Cell(<<>>), Cell(<<"0", "5", "/", "0", "1">>) >>
Row7 == << Cell(<<"2">>), Cell(<<"b">>), Cell(<<>>),
           Cell(<<"x">>), Cell(<<"tai", "bei", "A">>),
           Cell(<<"2", "1">>), Cell(<<>>) >>
Row7a == << Cell(<<"3">>), LinkCell(<<>>, <<>>), Cell(<<>>),
            Cell(<<"1", "0", "/", "0", "6">>), Cell(<<"shi">>),
            Cell(<<"1", "0">>), Cell(<<>>) >>
Row6 == << Cell(<<"4">>), Cell(<<"c">>), Cell(<<>>),
           Cell(<<"0", "6", "/", "1", "6">>), Cell(<<"tai", "bei">>),
           Cell(<<"5">>) >>

RowPool == {Row8, Row7, Row7a, Row6}

\* pages the refresh may fetch
Pages == { <<Row8, Row6, Row7>>, <<Row7a>>, <<Row6>> }

\* message texts
Texts ==
    { <<"yi1", "di", "qu", "cha", "xun", "sai", "shi4">>,
      <<"/">>,
      <<"/", "a">>,
      <<"2", "0", "2", "5", "0", "6">>,
      <<" ", "3">>,
      <<"6">>,
      <<"h", "i">> }

Handlers == {"h1", "h2"}

SearchTypes == {"date", "region", "keyword", "other"}

(***************************************************************************)
(* The program: init_data, update_data, handle_message                     *)
(***************************************************************************)
Deref(ref) == IF ref = 0 THEN NoneDF ELSE heap[ref]

IdleHandler ==
    [pc |-> "idle", text |-> <<>>, kind |-> "none", value |-> <<>>, df |-> 0,
     result |-> Msg("none"), sent |-> <<>>, failed |-> FALSE]

\* a handler that has left handle_message: its locals are gone, what it was
\* given and what it sent remain on record
Finished(l, pc, sent) ==
    [l EXCEPT !.pc = pc, !.sent = sent, !.df = 0, !.result = Msg("none")]

MainInit ==
    /\ cleaned_df = 0
    /\ heap = <<>>
    /\ published = <<>>
    /\ initialized = FALSE
    /\ upd = [pc |-> "off", raw_df |-> 0, last |-> "none"]
    /\ updates = 0
    /\ hnd = [h \in Handlers |-> IdleHandler]

PureIdle == input = <<>> /\ output = <<>> /\ step = "none"

Init == MainInit /\ PureIdle

\* init_data, lines 250-269: it runs at import, before the server and the
\* scheduler exist.  The last disjunct is the except branch (the scheduler
\* failing to start): the snapshot is the empty typed frame and no job runs.
init_data ==
    /\ ~initialized
    /\ initialized' = TRUE
    /\ cleaned_df' = 1
    /\ \E page \in Pages, fetched \in BOOLEAN :
         LET raw_df == IF fetched THEN scrape_ok(page) ELSE scrape_failed
             df == IF ~IsEmpty(raw_df) THEN clean_data(raw_df) ELSE EmptyTyped
         IN \/ /\ heap' = <<df>>
               /\ published' = <<df>>
               /\ upd' = [upd EXCEPT !.pc = "idle"]
            \/ /\ heap' = <<EmptyTyped>>
               /\ published' = <<EmptyTyped>>
               /\ upd' = upd
    /\ UNCHANGED <<updates, hnd, input, output, step>>

\* a plausible slip: the new frame is published first and cleaned in place after
U_Scrape_early ==
    /\ initialized /\ upd.pc = "idle" /\ updates < MaxUpdates
    /\ updates' = updates + 1
    /\ \E page \in Pages, fetched \in BOOLEAN :
         LET raw_df == IF fetched THEN scrape_ok(page) ELSE scrape_failed
         IN IF ~IsEmpty(raw_df)
            THEN /\ heap' = Append(heap, raw_df)
                 /\ published' = Append(published, raw_df)
                 /\ cleaned_df' = Len(heap) + 1
                 /\ upd' = [pc |-> "region", raw_df |-> Len(heap) + 1, last |-> "running"]
            ELSE /\ upd' = [upd EXCEPT !.last = "empty"]
                 /\ UNCHANGED <<heap, published, cleaned_df>>
    /\ UNCHANGED <<initialized, hnd, input, output, step>>

\* a plausible slip: the empty branch resets the snapshot as init_data's does
U_Scrape_reset ==
    /\ initialized /\ upd.pc = "idle" /\ updates < MaxUpdates
    /\ updates' = updates + 1
    /\ \E page \in Pages, fetched \in BOOLEAN :
         LET raw_df == IF fetched THEN scrape_ok(page) ELSE scrape_failed
         IN IF ~IsEmpty(raw_df)
            THEN /\ heap' = Append(heap, raw_df)
                 /\ published' = Append(published, NoneDF)
                 /\ cleaned_df' = cleaned_df
                 /\ upd' = [pc |-> "region", raw_df |-> Len(heap) + 1, last |-> "running"]
            ELSE /\ heap' = Append(heap, EmptyTyped)
                 /\ published' = Append(published, EmptyTyped)
                 /\ cleaned_df' = Len(heap) + 1
                 /\ upd' = [upd EXCEPT !.last = "empty"]
    /\ UNCHANGED <<initialized, hnd, input, output, step>>

\* update_data, lines 125-126 and 129-130: the scrape and the test of its
\* result; an empty result only logs a warning
U_Scrape ==
    /\ initialized /\ upd.pc = "idle" /\ updates < MaxUpdates
    /\ updates' = updates + 1
    /\ \E page \in Pages, fetched \in BOOLEAN :
         LET raw_df == IF fetched THEN scrape_ok(page) ELSE scrape_failed
         IN IF ~IsEmpty(raw_df)
            THEN /\ heap' = Append(heap, raw_df)
                 /\ published' = Append(published, NoneDF)
                 /\ upd' = [pc |-> "region", raw_df |-> Len(heap) + 1, last |-> "running"]
            ELSE /\ upd' = [upd EXCEPT !.last = "empty"]
                 /\ UNCHANGED <<heap, published>>
    /\ UNCHANGED <<cleaned_df, initialized, hnd, input, output, step>>

\* clean_data on the new frame, line 108 (in place, on the unpublished object)
U_Region ==
    /\ upd.pc = "region"
    /\ heap' = [heap EXCEPT ![upd.raw_df] = AssignRegion(@)]
    /\ upd' = [upd EXCEPT !.pc = "month"]
    /\ UNCHANGED <<cleaned_df, published, initialized, updates, hnd,
                   input, output, step>>

\* clean_data on the new frame, line 113
U_Month ==
    /\ upd.pc = "month"
    /\ heap' = [heap EXCEPT ![upd.raw_df] = AssignMonth(@)]
    /\ upd' = [upd EXCEPT !.pc = "publish"]
    /\ UNCHANGED <<cleaned_df, published, initialized, updates, hnd,
                   input, output, step>>

\* line 127: the assignment to the global
U_Publish ==
    /\ upd.pc = "publish"
    /\ cleaned_df' = upd.raw_df
    /\ published' = [published EXCEPT ![upd.raw_df] =
                        IF @.isframe THEN @ ELSE heap[upd.raw_df]]
    /\ upd' = [pc |-> "idle", raw_df |-> 0, last |-> "published"]
    /\ UNCHANGED <<heap, initialized, updates, hnd, input, output, step>>

\* handle_message, lines 195-236: strip, the menu-label test and the branch;
\* a search branch loads the global cleaned_df as the argument of the call
H_Receive(h) ==
    /\ initialized
    /\ hnd[h].pc \in {"idle", "returned", "raised"}
    /\ \E raw \in Texts :
         LET c == classify(raw)
             base == [IdleHandler EXCEPT !.text = raw, !.kind = c.kind, !.value = c.value]
         IN hnd' = [hnd EXCEPT ![h] =
                IF c.kind = "ignore" THEN [base EXCEPT !.pc = "returned"]
                ELSE IF c.kind \in {"prompt", "help"}
                THEN [base EXCEPT !.pc = "reply", !.result = Msg(c.kind)]
                ELSE [base EXCEPT !.pc = "search", !.df = cleaned_df]]
    /\ UNCHANGED <<cleaned_df, heap, published, initialized, upd, updates,
                   input, output, step>>

\* the body of search_races on the frame the handler was given
H_Search(h) ==
    /\ hnd[h].pc = "search"
    /\ hnd' = [hnd EXCEPT ![h].pc = "reply",
                          ![h].result = search_races(Deref(hnd[h].df), hnd[h].kind,
                                                     hnd[h].value)]
    /\ UNCHANGED <<cleaned_df, heap, published, initialized, upd, updates,
                   input, output, step>>

\* lines 238-241: reply_message either delivers the reply or raises
H_Reply(h) ==
    /\ hnd[h].pc = "reply"
    /\ \/ hnd' = [hnd EXCEPT ![h] = Finished(@, "returned", <<@.result>>)]
       \/ hnd' = [hnd EXCEPT ![h].pc = "except", ![h].failed = TRUE]
    /\ UNCHANGED <<cleaned_df, heap, published, initialized, upd, updates,
                   input, output, step>>

\* lines 243-248: the except branch replies again; when that call raises too
\* the exception leaves handle_message
H_Except(h) ==
    /\ hnd[h].pc = "except"
    /\ \/ hnd' = [hnd EXCEPT ![h] = Finished(@, "returned", <<Msg("system_error")>>)]
       \/ hnd' = [hnd EXCEPT ![h] = Finished(@, "raised", <<>>)]
    /\ UNCHANGED <<cleaned_df, heap, published, initialized, upd, updates,
                   input, output, step>>

Next ==
    \/ init_data
    \/ U_Scrape
    \/ U_Region
    \/ U_Month
    \/ U_Publish
    \/ \E h \in Handlers : H_Receive(h)
    \/ \E h \in Handlers : H_Search(h)
    \/ \E h \in Handlers : H_Reply(h)
    \/ \E h \in Handlers : H_Except(h)

Spec == Init /\ [][Next]_vars

(***************************************************************************)
(* Claims checked under Spec                                               *)
(***************************************************************************)
Complete(df) == df.isframe /\ df.region_code.present /\ df.month.present

Searching(h) == hnd[h].kind \in {"keyword", "date", "region"}

\* C1: whatever the interleaving of a refresh with the handlers, the frame a
\* query works on is a published snapshot, complete (both derived columns
\* populated for every record) and identical to what it was when published,
\* and the reply of the query is the search over exactly that snapshot.
C1_SnapshotIsolation ==
    \A h \in Handlers :
        (Searching(h) /\ hnd[h].pc \in {"search", "reply"}) =>
            /\ hnd[h].df \in 1..Len(heap)
            /\ Complete(published[hnd[h].df])
            /\ Len(published[hnd[h].df].region_code.vals) = Len(published[hnd[h].df].rows)
            /\ Len(published[hnd[h].df].month.vals) = Len(published[hnd[h].df].rows)
            /\ heap[hnd[h].df] = published[hnd[h].df]
            /\ (hnd[h].pc = "reply" =>
                  hnd[h].result =
                      search_races(published[hnd[h].df], hnd[h].kind, hnd[h].value))

\* C1 witness: a query that loaded the old snapshot is still searching after
\* the refresh has published a new one, while another query holds the new one.
C1_Witness ==
    \E h \in Handlers, g \in Handlers :
        /\ hnd[h].pc = "search" /\ hnd[g].pc = "reply" /\ Searching(g)
        /\ hnd[h].df = 1 /\ hnd[g].df = 2 /\ cleaned_df = 2
        /\ ~IsEmpty(heap[1]) /\ heap[1] # heap[2]

\* C2: no failure escapes handle_message, and a failure during handling is
\* turned into the "system error" reply.
C2_NoFailureEscapes ==
    \A h \in Handlers :
        /\ hnd[h].pc # "raised"
        /\ (hnd[h].pc = "returned" /\ hnd[h].failed) => hnd[h].sent = <<Msg("system_error")>>

\* C3: while the snapshot is None or empty, search_races answers "no data"
\* for every search type and value, and a finished search over such a
\* snapshot holds that answer.
C3_NoDataWhenEmpty ==
    /\ (cleaned_df = 0 \/ IsEmpty(Deref(cleaned_df))) =>
          \A t \in SearchTypes, v \in {hnd[h].value : h \in Handlers} \cup {<<"a", "b", "c">>} :
              search_races(Deref(cleaned_df), t, v) = Msg("no_data")
    /\ \A h \in Handlers :
          (Searching(h) /\ hnd[h].pc = "reply" /\ IsEmpty(Deref(hnd[h].df))) =>
              hnd[h].result = Msg("no_data")

\* C3 witness: a region query answered "no data" from the empty snapshot.
C3_Witness ==
    \E h \in Handlers :
        /\ hnd[h].pc = "returned" /\ hnd[h].kind = "region"
        /\ cleaned_df = 1 /\ updates = MaxUpdates /\ IsEmpty(heap[1])
        /\ hnd[h].sent = <<Msg("no_data")>>

\* the branch the claim assigns to a trimmed text, from the text alone
C4_Branch(text) ==
    IF text \in no_response_texts THEN "ignore"
    ELSE IF text # <<>> /\ Head(text) = "/"
    THEN (IF Len(text) = 1 THEN "prompt" ELSE "keyword")
    ELSE IF Len(text) = 6 /\ (\A k \in 1..6 : text[k] \in Digit) THEN "date"
    ELSE IF Len(text) = 1 /\ text[1] \in {"1", "2", "3", "4", "5"} THEN "region"
    ELSE "help"

\* what the claim says of one finished handling: the branch is the one the
\* text alone decides; a menu label sends nothing; every other branch sends
\* exactly one reply, which (unless a failure turned it into the "system
\* error" reply) is the prompt, the help text, or the branch's search over a
\* published snapshot
C4_Outcome(h) ==
    LET text == Strip(hnd[h].text)
        branch == C4_Branch(text)
        value == IF branch = "keyword" THEN Tail(text)
                 ELSE IF branch \in {"date", "region"} THEN text ELSE <<>>
    IN /\ hnd[h].kind = branch
       /\ hnd[h].value = value
       /\ IF branch = "ignore" THEN hnd[h].sent = <<>>
          ELSE /\ Len(hnd[h].sent) = 1
               /\ IF hnd[h].failed THEN hnd[h].sent[1] = Msg("system_error")
                  ELSE IF branch \in {"prompt", "help"} THEN hnd[h].sent[1] = Msg(branch)
                  ELSE \E r \in 1..Len(published) :
                          hnd[h].sent[1] = search_races(published[r], branch, value)

\* C4: a handled message falls in exactly one of the five outcomes, decided
\* by its trimmed text alone: a menu label sends nothing; the other four
\* (keyword search or prompt for "/", date search for six digits, region
\* search for 1-5, help otherwise) send exactly one reply.
C4_FiveOutcomes ==
    \A h \in Handlers : hnd[h].pc \in {"returned", "raised"} => C4_Outcome(h)

\* the same outcomes for the handlings that returned normally
C4_OutcomesOfReturned ==
    \A h \in Handlers : hnd[h].pc = "returned" => C4_Outcome(h)

\* C10: after startup the snapshot reference changes only when a refresh
\* whose scrape returned records publishes its cleaned frame; a refresh
\* whose scrape came back empty changes neither the reference nor any frame,
\* and a non-empty snapshot never becomes empty or absent.
C10_FailedRefreshKeepsSnapshot ==
    [][ initialized =>
          /\ (cleaned_df' # cleaned_df =>
                /\ upd.pc = "publish"
                /\ cleaned_df' = upd.raw_df
                /\ ~IsEmpty(heap[upd.raw_df]))
          /\ ((updates' # updates /\ upd'.last = "empty") =>
                cleaned_df' = cleaned_df /\ heap' = heap)
          /\ (~IsEmpty(Deref(cleaned_df)) => ~IsEmpty(heap'[cleaned_df'])) ]_vars

\* C10 witness: a query answered from the last published snapshot after a
\* refresh that came back empty.
C10_Witness ==
    /\ upd.last = "empty" /\ updates = 1 /\ cleaned_df = 1
    /\ \E h \in Handlers :
          /\ hnd[h].pc = "returned" /\ Searching(h)
          /\ Len(hnd[h].sent) = 1 /\ hnd[h].sent[1].msg = "found"
          /\ hnd[h].sent[1] = search_races(heap[1], hnd[h].kind, hnd[h].value)

(***************************************************************************)
(* The functions on their own: clean_data, search_races and                *)
(* scrape_marathon_data applied to drawn inputs                            *)
(***************************************************************************)
LocAlphabet == {"tai", "bei", "nan", "tou", "gao", "xiong", "jin", "men", "shi"}
DateAlphabet == {"0", "1", "/", "x"}
ValueAlphabet == {"0", "3", "a", "B", ".", "(", "-", " "}

Record(date, location) ==
    [date |-> date, name |-> <<"A", "b">>, location |-> location,
     distance |-> <<"4", "2">>, link |-> NoDataSentinel,
     registration_date |-> NoDataSentinel]

\* frames to clean: one record of any location, or one of any date, or none
InitRegion ==
    /\ MainInit
    /\ input \in {RawFrame(<<>>)} \cup
                 {RawFrame(<<Record(<<"0", "6", "/", "1", "5">>, loc)>>) :
                     loc \in Strings(LocAlphabet, MaxLocLen)}
    /\ output = NoneDF
    /\ step = "call"

InitMonth ==
    /\ MainInit
    /\ input \in {RawFrame(<<>>)} \cup
                 {RawFrame(<<Record(d, <<"gao", "xiong">>)>>) :
                     d \in Strings(DateAlphabet, MaxDateLen)}
    /\ output = NoneDF
    /\ step = "call"

Clean ==
    /\ step = "call"
    /\ output' = clean_data(input)
    /\ step' = "done"
    /\ UNCHANGED <<input, cleaned_df, heap, published, initialized, upd, updates, hnd>>

SpecRegion == InitRegion /\ [][Clean]_vars

SpecMonth == InitMonth /\ [][Clean]_vars

\* the records the sample rows give
SampleRecords == {race_info(Row8), race_info(Row7), race_info(Row7a)}

SampleFrames ==
    {NoneDF, EmptyTyped} \cup
    {clean_data(RawFrame(rows)) :
        rows \in UNION {[1..n -> SampleRecords] : n \in 1..MaxRows}}

InitSearch ==
    /\ MainInit
    /\ input \in [df : SampleFrames, search_type : SearchTypes,
                  value : Strings(ValueAlphabet, MaxValueLen)]
    /\ output = Msg("none")
    /\ step = "call"

Search ==
    /\ step = "call"
    /\ output' = search_races(input.df, input.search_type, input.value)
    /\ step' = "done"
    /\ UNCHANGED <<input, cleaned_df, heap, published, initialized, upd, updates, hnd>>

SpecSearch == InitSearch /\ [][Search]_vars

InitScrape ==
    /\ MainInit
    /\ input \in UNION {[1..n -> RowPool] : n \in 0..MaxPageRows}
    /\ output = [i |-> 0, races |-> <<>>, result |-> NoneDF, outcome |-> "running"]
    /\ step = "fetch"

\* lines 56-63: the GET (retries included), raise_for_status and the parse;
\* a terminal failure raises into the except branch
S_Fetch ==
    /\ step = "fetch"
    /\ \/ /\ output' = [output EXCEPT !.i = 1]
          /\ step' = "loop"
       \/ /\ output' = [output EXCEPT !.result = scrape_failed, !.outcome = "fetch_failed"]
          /\ step' = "done"
    /\ UNCHANGED <<input, cleaned_df, heap, published, initialized, upd, updates, hnd>>

\* lines 65-84: one row of the loop; an exception anywhere in it reaches the
\* except branch of line 88
S_Row ==
    /\ step = "loop" /\ output.i <= Len(input)
    /\ \/ /\ output' = [output EXCEPT
                           !.i = @ + 1,
                           !.races = IF row_qualifies(input[output.i])
                                     THEN Append(@, race_info(input[output.i])) ELSE @]
          /\ step' = step
       \/ /\ output' = [output EXCEPT !.result = scrape_failed, !.outcome = "row_failed"]
          /\ step' = "done"
    /\ UNCHANGED <<input, cleaned_df, heap, published, initialized, upd, updates, hnd>>

\* line 86
S_Return ==
    /\ step = "loop" /\ output.i > Len(input)
    /\ output' = [output EXCEPT !.result = RawFrame(output.races), !.outcome = "ok"]
    /\ step' = "done"
    /\ UNCHANGED <<input, cleaned_df, heap, published, initialized, upd, updates, hnd>>

NextScrape == S_Fetch \/ S_Row \/ S_Return

SpecScrape == InitScrape /\ [][NextScrape]_vars

(***************************************************************************)
(* Claims checked under the function specifications                        *)
(***************************************************************************)
\* the entries of seq whose index is in S, in order
RECURSIVE Sorted(_)
Sorted(S) ==
    IF S = {} THEN <<>>
    ELSE LET m == CHOOSE x \in S : \A y \in S : x <= y IN <<m>> \o Sorted(S \ {m})

SelectAt(seq, S) == [j \in 1..Cardinality(S) |-> seq[Sorted(S)[j]]]

\* rows is exactly the entries of seq whose index is in S, in order
ExactlyRows(rows, seq, S) ==
    /\ Len(rows) = Cardinality(S)
    /\ \A j \in 1..Len(rows) : rows[j] = SelectAt(seq, S)[j]

Formatted(df) == [k \in 1..Len(df.rows) |-> format_row(df.rows[k])]

IsInteger(value) == IsPyInt(value)

\* C5 as stated: in region mode the reply lists exactly the records whose
\* region code is the integer the value denotes, and every value that is no
\* integer gets the "search failed" message.
C5_RegionAsStated ==
    (step = "done" /\ input.search_type = "region") =>
        IF IsInteger(input.value)
        THEN ExactlyRows(output.rows, Formatted(input.df),
                 {k \in 1..Len(input.df.rows) :
                     input.df.region_code.vals[k] = PyInt(input.value)})
        ELSE output = Msg("search_error")

\* C5 amended: on a non-empty snapshot, region mode lists exactly the
\* records whose region code is the integer the value denotes ("no matching
\* event" when there is none), and every value that is no integer gets the
\* "search failed" message.
C5_RegionOnNonEmpty ==
    (step = "done" /\ input.search_type = "region"
       /\ input.df.isframe /\ ~IsEmpty(input.df)) =>
        IF IsInteger(input.value)
        THEN LET S == {k \in 1..Len(input.df.rows) :
                          input.df.region_code.vals[k] = PyInt(input.value)}
             IN /\ ExactlyRows(output.rows, Formatted(input.df), S)
                /\ output.msg = IF S = {} THEN "not_found" ELSE "found"
        ELSE output = Msg("search_error")

\* C5 witness: value " 3" on a snapshot with a region-3 and a region-1 record
\* returns the region-3 record alone.
C5_Witness ==
    /\ step = "done" /\ input.search_type = "region" /\ input.value = <<" ", "3">>
    /\ input.df.isframe /\ Len(input.df.rows) = 2
    /\ input.df.region_code.vals = <<1, 3>>
    /\ output = [msg |-> "found", rows |-> <<format_row(race_info(Row8))>>]

LowerSeq(s) == [k \in 1..Len(s) |-> Lower(s[k])]

\* the value is a case-insensitive literal substring of s
LiteralIn(value, s) == Contains(LowerSeq(s), LowerSeq(value))

\* C6: in keyword mode, on a non-empty snapshot, the reply lists exactly
\* the records whose name or location contains the value as a
\* case-insensitive literal substring, without error.
C6_KeywordLiteral ==
    (step = "done" /\ input.search_type = "keyword"
       /\ input.df.isframe /\ ~IsEmpty(input.df)) =>
        LET S == {k \in 1..Len(input.df.rows) :
                     \/ LiteralIn(input.value, input.df.rows[k].name)
                     \/ LiteralIn(input.value, input.df.rows[k].location)}
        IN /\ ExactlyRows(output.rows, Formatted(input.df), S)
           /\ output.msg = IF S = {} THEN "not_found" ELSE "found"

TableHit(x, i) == Contains(x, location_mapping[i].loc)

\* C7: the region code of every cleaned record is in 0..5; it is the code of
\* the first table entry, in table order, whose place name occurs in the
\* location, and 0 exactly when no entry occurs in it.
C7_RegionFirstInTable ==
    step = "done" =>
        /\ Len(output.rows) = Len(input.rows)
        /\ \A k \in 1..Len(output.rows) :
             LET x == output.rows[k].location
                 code == output.region_code.vals[k]
                 hits == {i \in 1..Len(location_mapping) : TableHit(x, i)}
             IN /\ code \in 0..5
                /\ (code = 0) <=> (hits = {})
                /\ hits # {} =>
                     \E i \in hits : /\ \A j \in hits : i <= j
                                     /\ code = location_mapping[i].code

\* C7 witness: a location naming Kaohsiung before Taipei gets Taipei's code,
\* the earlier table entry.
C7_Witness ==
    /\ step = "done" /\ Len(output.rows) = 1
    /\ output.rows[1].location = <<"gao", "xiong", "tai", "bei">>
    /\ output.region_code.vals = <<1>>

ShapeAt(d, p) ==
    /\ p >= 1 /\ p + 4 <= Len(d)
    /\ d[p] \in Digit /\ d[p + 1] \in Digit /\ d[p + 2] = "/"
    /\ d[p + 3] \in Digit /\ d[p + 4] \in Digit

NoDateQueryMatches(df) ==
    \A v \in Strings(DateAlphabet, 2) : search_races(df, "date", v) = Msg("not_found")

\* C8 as stated: a date that starts with two digits, a slash and two digits
\* gets those first two digits as its month; every other date gets no month.
C8_MonthAsStated ==
    (step = "done" /\ ~IsEmpty(output)) =>
        LET d == output.rows[1].date
            m == output.month.vals[1]
        IN IF ShapeAt(d, 1) THEN m = <<d[1], d[2]>> ELSE m = NaN

\* C8 amended: the month is the two digits that open the leftmost occurrence
\* of two digits, a slash and two digits anywhere in the date (so MM for a
\* date that starts MM/DD); it is absent exactly when the date holds no such
\* occurrence, and then no date query matches the record.
C8_MonthLeftmostAnywhere ==
    (step = "done" /\ ~IsEmpty(output)) =>
        LET d == output.rows[1].date
            m == output.month.vals[1]
            occ == {p \in 1..Len(d) : ShapeAt(d, p)}
        IN /\ output.month.present
           /\ (occ = {}) <=> (m = NaN)
           /\ occ = {} => NoDateQueryMatches(output)
           /\ occ # {} => \E p \in occ : (\A q \in occ : p <= q) /\ m = <<d[p], d[p + 1]>>
           /\ ShapeAt(d, 1) => m = <<d[1], d[2]>>

\* C8 witness: a date whose MM/DD part does not come first still gets a month.
C8_Witness ==
    /\ step = "done" /\ ~IsEmpty(output)
    /\ output.rows[1].date = <<"x", "1", "0", "/", "0", "1">>
    /\ output.month.vals = << <<"1", "0">> >>

\* C9: scrape_marathon_data always returns; after a failed fetch or an
\* exception in the loop it returns the empty record set whatever was
\* extracted so far; otherwise it returns one record for each row with at
\* least 7 cells, in page order, and none for the shorter rows.
C9_ScrapeFailsClosed ==
    step = "done" =>
        /\ output.outcome \in {"ok", "fetch_failed", "row_failed"}
        /\ output.result.isframe
        /\ output.outcome # "ok" => IsEmpty(output.result)
        /\ output.outcome = "ok" =>
              /\ ExactlyRows(output.result.rows,
                     [k \in 1..Len(input) |->
                         IF Len(input[k]) >= 7 THEN race_info(input[k]) ELSE input[k]],
                     {k \in 1..Len(input) : Len(input[k]) >= 7})
              /\ output.result = scrape_ok(input)

\* C9 witness: an exception after two records were extracted; nothing of
\* them is returned.
C9_Witness ==
    /\ step = "done" /\ output.outcome = "row_failed"
    /\ Len(output.races) = 2 /\ IsEmpty(output.result)

=============================================================================
